---- MODULE Spec2Model ----
(***************************************************************************)
(* Model of GestStock.py: the alert log (GestionAlertes), the per-type     *)
(* FIFO inventory (GestionStock) and the order assembler (GestionColis).   *)
(* A Python str is a sequence of one-character strings; a Produit is a     *)
(* record [type_p, volume]; the dict self.stock is a function whose domain *)
(* is the set of keys present; a deque is a sequence, oldest first.        *)
(*                                                                         *)
(* stock, log : GestionStock.stock and GestionAlertes.log                  *)
(* emises     : the messages of all "[ALERTE]" lines printed so far        *)
(* pc         : "idle" (between calls), "returned", "raised"               *)
(* call, pre  : the call just made and stock, log as they were before it   *)
(* out        : the lines the call printed, in order                       *)
(* ret, exc   : the value it returned, the exception that left it          *)
(* pieces     : the pieces handled so far, a call without a line being one *)
(***************************************************************************)
EXTENDS Integers, Sequences, FiniteSets, TLC

VARIABLES stock, log, emises, pc, call, pre, out, ret, exc, pieces

vars == <<stock, log, emises, pc, call, pre, out, ret, exc, pieces>>

(***************************************************************************)
(* Bound of the model.                                                     *)
(***************************************************************************)
\* most pieces handled in one session: a call counts the pieces of its line,
\* a call that takes no line counts one
MaxPieces == 4

(***************************************************************************)
(* Program constants.                                                      *)
(***************************************************************************)
\* deque(maxlen=3)
LogMaxLen == 3
\* self.SEUIL_MIN = 2
SEUIL_MIN == 2

(***************************************************************************)
(* Python str primitives, as far as the program uses them.                 *)
(***************************************************************************)
Whitespace == {" "}
Digits == {"0", "1", "2", "3", "4", "5", "6", "7", "8", "9"}
Signs == {"+", "-"}

\* c.upper() for a one-character str
upper(c) ==
    CASE c = "a" -> "A"
      [] c = "b" -> "B"
      [] c = "c" -> "C"
      [] OTHER -> c

RECURSIVE lstrip(_)
lstrip(s) == IF s # <<>> /\ Head(s) \in Whitespace THEN lstrip(Tail(s)) ELSE s

RECURSIVE rstrip(_)
rstrip(s) ==
    IF s # <<>> /\ s[Len(s)] \in Whitespace
    THEN rstrip(SubSeq(s, 1, Len(s) - 1))
    ELSE s

\* s.strip()
strip(s) == rstrip(lstrip(s))

RECURSIVE splitFrom(_, _)
splitFrom(s, cur) ==
    IF s = <<>> THEN <<cur>>
    ELSE IF Head(s) = "," THEN <<cur>> \o splitFrom(Tail(s), <<>>)
    ELSE splitFrom(Tail(s), Append(cur, Head(s)))

\* s.split(','): always at least one piece, the empty str gives ['']
split(s) == splitFrom(s, <<>>)

\* [x.strip() for x in s.split(',')]
splitStrip(s) == LET ps == split(s) IN [i \in 1..Len(ps) |-> strip(ps[i])]

DigitVal(c) ==
    CASE c = "0" -> 0 [] c = "1" -> 1 [] c = "2" -> 2 [] c = "3" -> 3
      [] c = "4" -> 4 [] c = "5" -> 5 [] c = "6" -> 6 [] c = "7" -> 7
      [] c = "8" -> 8 [] c = "9" -> 9

\* the digits of an int literal: digits, single underscores between digits only
IsDigitRun(b) ==
    /\ b # <<>>
    /\ b[1] \in Digits
    /\ b[Len(b)] \in Digits
    /\ \A i \in 1..Len(b) : b[i] \in Digits \cup {"_"}
    /\ \A i \in 1..(Len(b) - 1) : ~(b[i] = "_" /\ b[i + 1] = "_")

RECURSIVE DigitRunVal(_, _)
DigitRunVal(b, acc) ==
    IF b = <<>> THEN acc
    ELSE IF Head(b) = "_" THEN DigitRunVal(Tail(b), acc)
    ELSE DigitRunVal(Tail(b), 10 * acc + DigitVal(Head(b)))

\* the literal without surrounding whitespace and without its sign
IntBody(s) ==
    LET t == strip(s)
    IN  IF t # <<>> /\ Head(t) \in Signs THEN Tail(t) ELSE t

\* int(s) does not raise ValueError
IntOk(s) == IsDigitRun(IntBody(s))

\* int(s), when IntOk(s)
IntVal(s) ==
    LET t == strip(s)
        v == DigitRunVal(IntBody(s), 0)
    IN  IF t # <<>> /\ Head(t) = "-" THEN 0 - v ELSE v

(***************************************************************************)
(* Values.                                                                 *)
(***************************************************************************)
\* Produit(type_p, volume)
Produit(type_p, volume) == [type_p |-> type_p, volume |-> volume]

\* Optional[Produit]: None is the empty sequence, a product p is <<p>>
None == <<>>

\* f"Rupture imminente {type_p} (Stock: {qte})"
MsgSeuil(type_p, qte) == <<"Rupture imminente", type_p, qte>>

\* f"Rupture stock: {code}"
MsgRupture(code) == <<"Rupture stock", code>>

\* the services' state: the dict of queues, the alert deque, the lines printed
Etat(st, lg, o) == [stock |-> st, log |-> lg, out |-> o]

(***************************************************************************)
(* GestionAlertes.                                                         *)
(***************************************************************************)
\* faulty variant: a full deque refuses the new element and keeps what it holds
dequeAppend_plein(q, x) ==
    IF Len(q) < LogMaxLen THEN Append(q, x) ELSE q

\* deque(maxlen=3).append(x): a full deque drops its oldest element
dequeAppend(q, x) ==
    IF Len(q) < LogMaxLen THEN Append(q, x) ELSE Append(Tail(q), x)

ajouter_alerte(s, message) ==
    [s EXCEPT !.log = dequeAppend(@, message),
              !.out = Append(@, <<"[ALERTE]", message>>)]

afficher_alertes(s) ==
    LET o1 == Append(s.out, <<"--- JOURNAL DES ALERTES ---">>)
        o2 == IF s.log = <<>> THEN Append(o1, <<"Aucune alerte active.">>) ELSE o1
    IN  [s EXCEPT !.out = o2 \o [i \in 1..Len(s.log) |-> <<"Log:", s.log[i]>>]]

(***************************************************************************)
(* GestionStock.                                                           *)
(***************************************************************************)
\* the exception raised by code[0].upper() then int(code[1:]), "none" if neither
ParseExc(code) ==
    IF code = <<>> THEN "IndexError"
    ELSE IF ~IntOk(Tail(code)) THEN "ValueError"
    ELSE "none"

\* Produit(type_p=code[0].upper(), volume=int(code[1:])), when nothing is raised
ParseProduit(code) == Produit(upper(code[1]), IntVal(Tail(code)))

\* faulty variant: self.stock[k] = deque() runs for every product, not only for
\* a missing key
stockAppend_remplace(st, p) ==
    LET k == p.type_p
    IN  [x \in DOMAIN st \cup {k} |-> IF x = k THEN <<p>> ELSE st[x]]

\* faulty variant: a missing key makes a new dict that holds the new queue alone
stockAppend_seul(st, p) ==
    LET k == p.type_p
    IN  IF k \in DOMAIN st
        THEN [st EXCEPT ![k] = Append(@, p)]
        ELSE [x \in {k} |-> <<p>>]

\* self.stock[k].append(p), after self.stock[k] = deque() for a missing key
stockAppend(st, p) ==
    LET k == p.type_p
    IN  IF k \in DOMAIN st
        THEN [st EXCEPT ![k] = Append(@, p)]
        ELSE [x \in DOMAIN st \cup {k} |-> IF x = k THEN <<p>> ELSE st[x]]

\* faulty variant: the queue is looked up under code[0], not under its upper case
ajouter_unitaire_cle_brute(s, code) ==
    IF ParseExc(code) # "none"
    THEN [s EXCEPT !.out = Append(@, <<"Erreur format :", code>>)]
    ELSE LET p == ParseProduit(code)
             k == code[1]
             st == s.stock
         IN  [s EXCEPT !.stock =
                           IF k \in DOMAIN st
                           THEN [st EXCEPT ![k] = Append(@, p)]
                           ELSE [x \in DOMAIN st \cup {k} |->
                                    IF x = k THEN <<p>> ELSE st[x]],
                       !.out = Append(@, <<"Stock + :", p>>)]

\* faulty variant: the threshold check also runs after an addition
ajouter_unitaire_seuil(s, code) ==
    IF ParseExc(code) # "none"
    THEN [s EXCEPT !.out = Append(@, <<"Erreur format :", code>>)]
    ELSE LET p == ParseProduit(code)
             s1 == [s EXCEPT !.stock = stockAppend(@, p),
                             !.out = Append(@, <<"Stock + :", p>>)]
             qte == Len(s1.stock[p.type_p])
         IN  IF qte < SEUIL_MIN
             THEN [s1 EXCEPT !.log = dequeAppend(@, MsgSeuil(p.type_p, qte)),
                             !.out = Append(@, <<"[ALERTE]", MsgSeuil(p.type_p, qte)>>)]
             ELSE s1

ajouter_unitaire(s, code) ==
    IF ParseExc(code) # "none"
    THEN [s EXCEPT !.out = Append(@, <<"Erreur format :", code>>)]
    ELSE LET p == ParseProduit(code)
         IN  [s EXCEPT !.stock = stockAppend(@, p),
                       !.out = Append(@, <<"Stock + :", p>>)]

\* faulty variant: the try encloses the loop, the first token that fails ends the batch
RECURSIVE ajouter_items_abandon(_, _)
ajouter_items_abandon(s, items) ==
    IF items = <<>> THEN s
    ELSE IF ParseExc(Head(items)) # "none" THEN ajouter_unitaire(s, Head(items))
    ELSE ajouter_items_abandon(ajouter_unitaire(s, Head(items)), Tail(items))

RECURSIVE ajouter_items(_, _)
ajouter_items(s, items) ==
    IF items = <<>> THEN s
    ELSE ajouter_items(ajouter_unitaire(s, Head(items)), Tail(items))

ajouter_masse(s, chaine_saisie) ==
    IF chaine_saisie = <<>> THEN s
    ELSE ajouter_items(s, splitStrip(chaine_saisie))

\* faulty variant: the threshold test is <= instead of <
verifier_seuil_inclusif(s, type_p) ==
    LET qte == Len(s.stock[type_p])
    IN  IF qte <= SEUIL_MIN THEN ajouter_alerte(s, MsgSeuil(type_p, qte)) ELSE s

verifier_seuil(s, type_p) ==
    LET qte == Len(s.stock[type_p])
    IN  IF qte < SEUIL_MIN THEN ajouter_alerte(s, MsgSeuil(type_p, qte)) ELSE s

\* faulty variant: the scan keeps the last product of that volume instead of the first
dernier_indice(q, vol_demande) ==
    IF \E i \in 1..Len(q) : q[i].volume = vol_demande
    THEN CHOOSE i \in 1..Len(q) :
            /\ q[i].volume = vol_demande
            /\ \A j \in (i + 1)..Len(q) : q[j].volume # vol_demande
    ELSE 0

\* faulty variant: a scan that finds nothing falls back on the head of the queue
indice_ou_tete(q, vol_demande) ==
    IF \E i \in 1..Len(q) : q[i].volume = vol_demande
    THEN CHOOSE i \in 1..Len(q) :
            /\ q[i].volume = vol_demande
            /\ \A j \in 1..(i - 1) : q[j].volume # vol_demande
    ELSE 1

\* the index the enumerate loop stops at: the first product of that volume, 0 if none
premier_indice(q, vol_demande) ==
    IF \E i \in 1..Len(q) : q[i].volume = vol_demande
    THEN CHOOSE i \in 1..Len(q) :
            /\ q[i].volume = vol_demande
            /\ \A j \in 1..(i - 1) : q[j].volume # vol_demande
    ELSE 0

\* faulty variant: the product found is returned but stays in the queue
supprimer_rien(q, i) == q

\* del q[i]
supprimer(q, i) == SubSeq(q, 1, i - 1) \o SubSeq(q, i + 1, Len(q))

\* faulty variant: a type that has no queue is reported as out of stock
retirer_produit_absent_alerte(s, type_p, vol_demande) ==
    IF type_p \notin DOMAIN s.stock
    THEN [s |-> ajouter_alerte(s, MsgSeuil(type_p, 0)), ret |-> None]
    ELSE IF s.stock[type_p] = <<>>
    THEN [s |-> s, ret |-> None]
    ELSE LET q == s.stock[type_p]
             i == premier_indice(q, vol_demande)
         IN  IF i = 0
             THEN [s |-> s, ret |-> None]
             ELSE [s |-> verifier_seuil(
                            [s EXCEPT !.stock[type_p] = supprimer(q, i)], type_p),
                   ret |-> <<q[i]>>]

\* faulty variant: the threshold check also runs when the scan finds nothing
retirer_produit_seuil_toujours(s, type_p, vol_demande) ==
    IF type_p \notin DOMAIN s.stock \/ s.stock[type_p] = <<>>
    THEN [s |-> s, ret |-> None]
    ELSE LET q == s.stock[type_p]
             i == premier_indice(q, vol_demande)
         IN  IF i = 0
             THEN [s |-> verifier_seuil(s, type_p), ret |-> None]
             ELSE [s |-> verifier_seuil(
                            [s EXCEPT !.stock[type_p] = supprimer(q, i)], type_p),
                   ret |-> <<q[i]>>]

\* the state after the call and the value returned
retirer_produit(s, type_p, vol_demande) ==
    IF type_p \notin DOMAIN s.stock \/ s.stock[type_p] = <<>>
    THEN [s |-> s, ret |-> None]
    ELSE LET q == s.stock[type_p]
             i == premier_indice(q, vol_demande)
         IN  IF i = 0
             THEN [s |-> s, ret |-> None]
             ELSE [s |-> verifier_seuil(
                            [s EXCEPT !.stock[type_p] = supprimer(q, i)], type_p),
                   ret |-> <<q[i]>>]

(***************************************************************************)
(* GestionColis.                                                           *)
(***************************************************************************)
\* faulty variant: the shortage alert is recorded for every line, served or not
recuperer_alerte_toujours(s, code) ==
    IF ParseExc(code) # "none"
    THEN [s |-> s, ret |-> None, exc |-> ParseExc(code)]
    ELSE LET r == retirer_produit(s, upper(code[1]), IntVal(Tail(code)))
         IN  [s |-> ajouter_alerte(r.s, MsgRupture(code)),
              ret |-> r.ret, exc |-> "none"]

\* the state after the call, the value returned, the exception that left it
recuperer_ou_gerer_rupture(s, code) ==
    IF ParseExc(code) # "none"
    THEN [s |-> s, ret |-> None, exc |-> ParseExc(code)]
    ELSE LET r == retirer_produit(s, upper(code[1]), IntVal(Tail(code)))
         IN  IF r.ret # None
             THEN [s |-> r.s, ret |-> r.ret, exc |-> "none"]
             ELSE [s |-> ajouter_alerte(r.s, MsgRupture(code)),
                   ret |-> None, exc |-> "none"]

\* faulty variant: a line that finds nothing ends the loop, the later lines are dropped
RECURSIVE boucle_codes_arret(_, _, _)
boucle_codes_arret(s, codes, recuperes) ==
    IF codes = <<>> THEN [s |-> s, recuperes |-> recuperes, exc |-> "none"]
    ELSE LET r == recuperer_ou_gerer_rupture(s, Head(codes))
         IN  IF r.exc # "none"
             THEN [s |-> r.s, recuperes |-> recuperes, exc |-> r.exc]
             ELSE IF r.ret = None
             THEN [s |-> r.s, recuperes |-> recuperes, exc |-> "none"]
             ELSE boucle_codes_arret(r.s, Tail(codes), recuperes \o r.ret)

\* the for loop of preparer_colis: an exception leaves it at once
RECURSIVE boucle_codes(_, _, _)
boucle_codes(s, codes, recuperes) ==
    IF codes = <<>> THEN [s |-> s, recuperes |-> recuperes, exc |-> "none"]
    ELSE LET r == recuperer_ou_gerer_rupture(s, Head(codes))
         IN  IF r.exc # "none"
             THEN [s |-> r.s, recuperes |-> recuperes, exc |-> r.exc]
             ELSE boucle_codes(r.s, Tail(codes), recuperes \o r.ret)

\* faulty variant: p goes in front of the products of its own volume (an unstable sort)
inserer_devant(pile, p) ==
    LET n == Cardinality({i \in 1..Len(pile) : pile[i].volume > p.volume})
    IN  SubSeq(pile, 1, n) \o <<p>> \o SubSeq(pile, n + 1, Len(pile))

\* where a stable descending sort puts p: behind every product at least as big
inserer(pile, p) ==
    LET n == Cardinality({i \in 1..Len(pile) : pile[i].volume >= p.volume})
    IN  SubSeq(pile, 1, n) \o <<p>> \o SubSeq(pile, n + 1, Len(pile))

RECURSIVE trier(_, _)
trier(pile, produits) ==
    IF produits = <<>> THEN pile
    ELSE trier(inserer(pile, Head(produits)), Tail(produits))

\* sorted(produits, key=lambda x: x.volume, reverse=True)
sorted_desc(produits) == trier(<<>>, produits)

afficher_colis(s, pile) == [s EXCEPT !.out = Append(@, <<"-> Colis assemble :", pile>>)]

\* faulty variant: the header is printed after the loop, behind the alerts
preparer_colis_entete_tardive(s, chaine_commande) ==
    IF chaine_commande = <<>> THEN [s |-> s, exc |-> "none"]
    ELSE LET b == boucle_codes(s, splitStrip(chaine_commande), <<>>)
             s1 == [b.s EXCEPT !.out = Append(@, <<"--- COMMANDE :", chaine_commande>>)]
         IN  IF b.exc # "none"
             THEN [s |-> s1, exc |-> b.exc]
             ELSE [s |-> afficher_colis(s1, sorted_desc(b.recuperes)), exc |-> "none"]

\* the state after the call and the exception that left it ("none": it returned)
preparer_colis(s, chaine_commande) ==
    IF chaine_commande = <<>> THEN [s |-> s, exc |-> "none"]
    ELSE LET s1 == [s EXCEPT !.out = Append(@, <<"--- COMMANDE :", chaine_commande>>)]
             b == boucle_codes(s1, splitStrip(chaine_commande), <<>>)
         IN  IF b.exc # "none"
             THEN [s |-> b.s, exc |-> b.exc]
             ELSE [s |-> afficher_colis(b.s, sorted_desc(b.recuperes)), exc |-> "none"]

(***************************************************************************)
(* What the operator types and what a caller passes.                       *)
(***************************************************************************)
\* the pieces a typed line is made of, as they stand between its commas
Pieces ==
    { <<>>, <<" ">>, <<"A">>, <<"A", "x">>,
      <<"A", "1">>, <<"a", "2">>, <<" ", "b", "1">>,
      <<"A", "-", "1">> }

RECURSIVE join(_)
join(ps) ==
    IF Len(ps) = 1 THEN ps[1] ELSE ps[1] \o <<",">> \o join(Tail(ps))

\* the typed lines: one piece, or two pieces with a comma between them
Texts == {join(<<p>>) : p \in Pieces} \cup {join(<<p, q>>) : p, q \in Pieces}

\* the codes a caller passes to single-item ingestion
Codes == {strip(p) : p \in Pieces}

\* the types and volumes a caller asks retirer_produit for
Types == {"A", "B"}
Volumes == {1, 2}

\* the messages a caller records directly
Messages == {MsgSeuil("A", 1), MsgSeuil("B", 0), MsgRupture(<<"A", "1">>)}

(***************************************************************************)
(* The state machine: a caller at "idle" makes one call; the call either   *)
(* returns or raises; a call that raised ends the process (nothing in the  *)
(* program catches it), a call that returned lets the caller go on.        *)
(***************************************************************************)
Courant == Etat(stock, log, <<>>)

\* the messages of the "[ALERTE]" lines among the printed lines o, in order
AlertesDe(o) ==
    LET lignes == SelectSeq(o, LAMBDA l : l[1] = "[ALERTE]")
    IN  [i \in 1..Len(lignes) |-> lignes[i][2]]


\* the effect of a call on the variables
Effet(op, arg, n, s, r, e) ==
    /\ stock' = s.stock
    /\ log' = s.log
    /\ emises' = emises \o AlertesDe(s.out)
    /\ out' = s.out
    /\ ret' = r
    /\ exc' = e
    /\ call' = [op |-> op, arg |-> arg]
    /\ pre' = [stock |-> stock, log |-> log]
    /\ pc' = IF e = "none" THEN "returned" ELSE "raised"
    /\ pieces' = pieces + n

Init ==
    /\ stock = <<>>
    /\ log = <<>>
    /\ emises = <<>>
    /\ pc = "idle"
    /\ call = [op |-> "", arg |-> <<>>]
    /\ pre = [stock |-> <<>>, log |-> <<>>]
    /\ out = <<>>
    /\ ret = None
    /\ exc = "none"
    /\ pieces = 0

AjouterAlerte ==
    \E m \in Messages :
        /\ pc = "idle" /\ pieces + 1 <= MaxPieces
        /\ Effet("ajouter_alerte", <<m>>, 1, ajouter_alerte(Courant, m), None, "none")

AfficherAlertes ==
    /\ pc = "idle" /\ pieces + 1 <= MaxPieces
    /\ Effet("afficher_alertes", <<>>, 1, afficher_alertes(Courant), None, "none")

AjouterMasse ==
    \E t \in Texts :
        LET s == ajouter_masse(Courant, t)
        IN  /\ pc = "idle" /\ pieces + Len(split(t)) <= MaxPieces
            /\ Effet("ajouter_masse", <<t>>, Len(split(t)), s, None, "none")

AjouterUnitaire ==
    \E c \in Codes :
        LET s == ajouter_unitaire(Courant, c)
        IN  /\ pc = "idle" /\ pieces + 1 <= MaxPieces
            /\ Effet("ajouter_unitaire", <<c>>, 1, s, None, "none")

RetirerProduit ==
    \E k \in Types, v \in Volumes :
        LET r == retirer_produit(Courant, k, v)
        IN  /\ pc = "idle" /\ pieces + 1 <= MaxPieces
            /\ Effet("retirer_produit", <<k, v>>, 1, r.s, r.ret, "none")

PreparerColis ==
    \E t \in Texts :
        LET r == preparer_colis(Courant, t)
        IN  /\ pc = "idle" /\ pieces + Len(split(t)) <= MaxPieces
            /\ Effet("preparer_colis", <<t>>, Len(split(t)), r.s, None, r.exc)

\* the caller takes the result and is ready for its next call
Boucle ==
    /\ pc = "returned"
    /\ pc' = "idle"
    /\ call' = [op |-> "", arg |-> <<>>]
    /\ pre' = [stock |-> <<>>, log |-> <<>>]
    /\ out' = <<>>
    /\ ret' = None
    /\ UNCHANGED <<stock, log, emises, exc, pieces>>

Next ==
    \/ AjouterAlerte
    \/ AfficherAlertes
    \/ AjouterMasse
    \/ AjouterUnitaire
    \/ RetirerProduit
    \/ PreparerColis
    \/ Boucle

Spec == Init /\ [][Next]_vars

(***************************************************************************)
(* Vocabulary of the properties.                                           *)
(***************************************************************************)
\* the call op has just been made (it returned or it raised)
Apres(op) == pc # "idle" /\ call.op = op

\* the queue of type k before the call, empty when the dict had no such key
AvantQueue(k) == IF k \in DOMAIN pre.stock THEN pre.stock[k] ELSE <<>>

\* the queue of type k now, empty when the dict has no such key
Queue(k) == IF k \in DOMAIN stock THEN stock[k] ELSE <<>>

\* q without its i-th element
Sans(q, i) == [n \in 1..(Len(q) - 1) |-> IF n < i THEN q[n] ELSE q[n + 1]]

\* the last n elements of q, all of q when it has fewer
Derniers(q, n) == IF Len(q) <= n THEN q ELSE SubSeq(q, Len(q) - n + 1, Len(q))

\* some product of q has volume v
Contient(q, v) == \E i \in 1..Len(q) : q[i].volume = v

(***************************************************************************)
(* C2. When the type's queue holds a product of the requested volume,      *)
(* retirer_produit returns the earliest-inserted product of that volume    *)
(* and the queue afterwards is the queue before with exactly that position *)
(* deleted, every other product keeping its place in the order.            *)
(***************************************************************************)
C2_RetraitPremierDuVolume ==
    Apres("retirer_produit") =>
        LET k == call.arg[1]
            v == call.arg[2]
            q == AvantQueue(k)
        IN  Contient(q, v) =>
                \E i \in 1..Len(q) :
                    /\ q[i].volume = v
                    /\ \A j \in 1..(i - 1) : q[j].volume # v
                    /\ ret = <<q[i]>>
                    /\ k \in DOMAIN stock
                    /\ stock[k] = Sans(q, i)

\* a queue of three with the requested volume at both ends: the first one goes
C2_Witness ==
    /\ Apres("retirer_produit")
    /\ Len(AvantQueue(call.arg[1])) = 3
    /\ AvantQueue(call.arg[1])[1].volume = call.arg[2]
    /\ AvantQueue(call.arg[1])[2].volume # call.arg[2]
    /\ AvantQueue(call.arg[1])[3].volume = call.arg[2]
    /\ ret # None
    /\ Len(Queue(call.arg[1])) = 2

(***************************************************************************)
(* C3. After a successful retirer_produit for type k, with n the length of *)
(* k's queue afterwards: if n < SEUIL_MIN exactly one alert is recorded,   *)
(* the low-stock alert naming k and n (also when n = 0 and when the count  *)
(* was already below the threshold before); if n >= SEUIL_MIN none is.     *)
(***************************************************************************)
C3_AlerteSeuilApresRetrait ==
    (Apres("retirer_produit") /\ ret # None) =>
        LET k == call.arg[1]
            n == Len(Queue(k))
        IN  IF n < SEUIL_MIN
            THEN /\ out = << <<"[ALERTE]", MsgSeuil(k, n)>> >>
                 /\ log = Derniers(pre.log \o <<MsgSeuil(k, n)>>, LogMaxLen)
            ELSE /\ out = <<>>
                 /\ log = pre.log

\* the last product of a type is withdrawn: the count was 1, already below 2
C3_Witness ==
    /\ Apres("retirer_produit")
    /\ ret # None
    /\ Len(AvantQueue(call.arg[1])) = 1
    /\ Len(Queue(call.arg[1])) = 0
    /\ out = << <<"[ALERTE]", MsgSeuil(call.arg[1], 0)>> >>

(***************************************************************************)
(* C7. retirer_produit returns None, and does not raise, whenever the type *)
(* has no queue, its queue is empty, or no product of its queue has        *)
(* exactly the requested volume.                                           *)
(***************************************************************************)
C7_RetraitIntrouvable ==
    Apres("retirer_produit") =>
        LET k == call.arg[1]
            v == call.arg[2]
        IN  (\/ k \notin DOMAIN pre.stock
             \/ pre.stock[k] = <<>>
             \/ ~Contient(pre.stock[k], v))
                => (ret = None /\ exc = "none" /\ pc = "returned")

\* a non-empty queue without the requested volume
C7_Witness ==
    /\ Apres("retirer_produit")
    /\ call.arg[1] \in DOMAIN pre.stock
    /\ pre.stock[call.arg[1]] # <<>>
    /\ ~Contient(pre.stock[call.arg[1]], call.arg[2])
    /\ ret = None

(***************************************************************************)
(* C6. In every reachable state the alert log holds at most 3 alerts and   *)
(* is, oldest first, the last min(3, N) of the N messages recorded so far, *)
(* whatever calls recorded them: from the 4th on, each record evicts the   *)
(* oldest retained alert.                                                  *)
(***************************************************************************)
C6_JournalTroisDerniers ==
    /\ Len(log) <= 3
    /\ log = Derniers(emises, 3)

\* an order records the 4th alert or a later one, after a low-stock alert
C6_Witness ==
    /\ Apres("preparer_colis")
    /\ Len(emises) > 3
    /\ Len(AlertesDe(out)) > 0
    /\ \E i \in 1..Len(emises) : emises[i][1] = "Rupture imminente"
    /\ log = SubSeq(emises, Len(emises) - 2, Len(emises))

(***************************************************************************)
(* Order and batch lines.                                                  *)
(***************************************************************************)
\* the line passed to ajouter_masse or preparer_colis
Ligne == call.arg[1]

\* a code that does not parse: empty, nothing after its first character, or a
\* remainder that is not an integer
MalForme(c) == c = <<>> \/ Tail(c) = <<>> \/ ~IntOk(Tail(c))

\* the product a well-formed code names
ProduitDe(c) == Produit(upper(c[1]), IntVal(Tail(c)))

\* the products named by the well-formed codes among cs that have type k, in order
ProduitsDe(cs, k) ==
    LET bons == SelectSeq(cs, LAMBDA c : ~MalForme(c) /\ upper(c[1]) = k)
    IN  [i \in 1..Len(bons) |-> ProduitDe(bons[i])]

\* the types named by the well-formed codes among cs
TypesDe(cs) == {upper(cs[i][1]) : i \in {j \in 1..Len(cs) : ~MalForme(cs[j])}}

(***************************************************************************)
(* C8. In ajouter_masse every token is attempted on its own: a token that  *)
(* does not parse is reported as a format error, adds nothing and raises   *)
(* nothing out of the call, and every well-formed token before or after it *)
(* is appended to the queue of its type.                                   *)
(***************************************************************************)
C8_LotIndependant ==
    (Apres("ajouter_masse") /\ Ligne # <<>>) =>
        LET cs == splitStrip(Ligne)
        IN  /\ pc = "returned"
            /\ exc = "none"
            /\ Len(out) = Len(cs)
            /\ \A i \in 1..Len(cs) :
                  IF MalForme(cs[i])
                  THEN out[i][1] = "Erreur format :" /\ out[i][2] = cs[i]
                  ELSE out[i][1] = "Stock + :" /\ out[i][2] = ProduitDe(cs[i])
            /\ DOMAIN stock = DOMAIN pre.stock \cup TypesDe(cs)
            /\ \A k \in DOMAIN stock : stock[k] = AvantQueue(k) \o ProduitsDe(cs, k)
            /\ log = pre.log

\* a batch whose first token does not parse and whose second is appended
C8_Witness ==
    /\ Apres("ajouter_masse")
    /\ Len(splitStrip(Ligne)) = 2
    /\ MalForme(splitStrip(Ligne)[1])
    /\ splitStrip(Ligne)[1] # <<>>
    /\ ~MalForme(splitStrip(Ligne)[2])
    /\ out[1][1] = "Erreur format :"
    /\ out[2][1] = "Stock + :"
    /\ stock # pre.stock

(***************************************************************************)
(* C9. ajouter_masse hands only non-empty tokens to single-item ingestion: *)
(* an empty token gives neither a product nor a format-error report, and   *)
(* an empty or whitespace-only line changes nothing and prints nothing.    *)
(***************************************************************************)
C9_TokensVidesIgnores ==
    Apres("ajouter_masse") =>
        /\ \A i \in 1..Len(out) : ~(out[i][1] = "Erreur format :" /\ out[i][2] = <<>>)
        /\ strip(Ligne) = <<>> => (out = <<>> /\ stock = pre.stock /\ log = pre.log)

(***************************************************************************)
(* C10. preparer_colis on an empty or whitespace-only line is a no-op: it  *)
(* returns, leaves the stock and the alert log as they were and prints     *)
(* nothing.                                                                *)
(***************************************************************************)
C10_CommandeVideSansEffet ==
    (Apres("preparer_colis") /\ strip(Ligne) = <<>>) =>
        /\ pc = "returned"
        /\ exc = "none"
        /\ stock = pre.stock
        /\ log = pre.log
        /\ out = <<>>

(***************************************************************************)
(* C1. preparer_colis on an order holding a code that does not parse never *)
(* ends abnormally: the call returns and the assembled package is printed  *)
(* as its last line.                                                       *)
(***************************************************************************)
C1_CommandeMalFormeeSansArret ==
    (/\ Apres("preparer_colis")
     /\ Ligne # <<>>
     /\ \E i \in 1..Len(splitStrip(Ligne)) : MalForme(splitStrip(Ligne)[i]))
        => /\ pc = "returned"
           /\ exc = "none"
           /\ out # <<>>
           /\ out[Len(out)][1] = "-> Colis assemble :"

(***************************************************************************)
(* What an order must do, computed from the stock before the call and the  *)
(* codes of the line alone.                                                *)
(***************************************************************************)
\* the number of products of volume v in q
Nb(q, v) == Cardinality({i \in 1..Len(q) : q[i].volume = v})

\* the lines the loop reaches: those before the first code that does not parse
Traitees(cs) == {i \in 1..Len(cs) : \A j \in 1..i : ~MalForme(cs[j])}

\* line i finds no product: the stock before the call held no more products of
\* its type and volume than the lines before it already asked for
Manque(cs, i) ==
    LET p == ProduitDe(cs[i])
    IN  Nb(AvantQueue(p.type_p), p.volume)
            <= Cardinality({j \in 1..(i - 1) : ProduitDe(cs[j]) = p})

\* the indices of S in increasing order
RECURSIVE EnOrdre(_)
EnOrdre(S) ==
    IF S = {} THEN <<>>
    ELSE LET m == CHOOSE x \in S : \A y \in S : x <= y
         IN  <<m>> \o EnOrdre(S \ {m})

\* the codes of the reached lines that find no product, in line order
CodesManquants(cs) ==
    LET idx == EnOrdre({i \in Traitees(cs) : Manque(cs, i)})
    IN  [n \in 1..Len(idx) |-> cs[idx[n]]]

\* the products of the reached lines that find one, in line order
Recuperes(cs) ==
    LET idx == EnOrdre({i \in Traitees(cs) : ~Manque(cs, i)})
    IN  [n \in 1..Len(idx) |-> ProduitDe(cs[idx[n]])]

\* the codes of the shortage alerts among the printed lines o, in order
RupturesDe(o) ==
    LET ms == SelectSeq(AlertesDe(o), LAMBDA m : m[1] = "Rupture stock")
    IN  [i \in 1..Len(ms) |-> ms[i][2]]

\* the package printed as the last line
Colis == out[Len(out)][2]

\* the number of places of seq that hold p
Compte(seq, p) == Cardinality({n \in 1..Len(seq) : seq[n] = p})

(***************************************************************************)
(* C4. In preparer_colis every well-formed line that finds no product of   *)
(* its type and volume when it is processed records exactly one shortage   *)
(* alert carrying its code and puts nothing in the package, and the lines  *)
(* after it are still processed; an order whose only line cannot be served *)
(* returns with an empty package.                                          *)
(***************************************************************************)
C4_LigneManquanteSeule ==
    (Apres("preparer_colis") /\ Ligne # <<>>) =>
        LET cs == splitStrip(Ligne)
        IN  /\ RupturesDe(out) = CodesManquants(cs)
            /\ Traitees(cs) = 1..Len(cs) =>
                  /\ pc = "returned"
                  /\ exc = "none"
                  /\ out[Len(out)][1] = "-> Colis assemble :"
                  /\ Len(Colis) = Len(Recuperes(cs))
                  /\ \A i \in 1..Len(cs) :
                        Compte(Colis, ProduitDe(cs[i]))
                            = Compte(Recuperes(cs), ProduitDe(cs[i]))

\* the first line finds nothing, the second line is served all the same
C4_Witness ==
    /\ Apres("preparer_colis")
    /\ pc = "returned"
    /\ Len(splitStrip(Ligne)) = 2
    /\ Traitees(splitStrip(Ligne)) = {1, 2}
    /\ Manque(splitStrip(Ligne), 1)
    /\ ~Manque(splitStrip(Ligne), 2)
    /\ RupturesDe(out) = <<splitStrip(Ligne)[1]>>
    /\ Colis = <<ProduitDe(splitStrip(Ligne)[2])>>

(***************************************************************************)
(* C5. The package preparer_colis prints is a permutation of the products  *)
(* recovered during the call, in non-increasing volume, two products of    *)
(* equal volume standing in the order in which they were recovered.        *)
(***************************************************************************)
\* the place of r[i] after a stable descending sort of r
Rang(r, i) ==
    Cardinality({j \in 1..Len(r) : r[j].volume > r[i].volume})
        + Cardinality({j \in 1..i : r[j].volume = r[i].volume})

C5_ColisTriStable ==
    (Apres("preparer_colis") /\ pc = "returned" /\ Ligne # <<>>) =>
        LET r == Recuperes(splitStrip(Ligne))
        IN  /\ out[Len(out)][1] = "-> Colis assemble :"
            /\ Len(Colis) = Len(r)
            /\ \A i \in 1..Len(r) : Colis[Rang(r, i)] = r[i]
            /\ \A a, b \in 1..Len(Colis) : a < b => Colis[a].volume >= Colis[b].volume

\* two products of one volume and two types, recovered B first: B stays first
C5_Witness ==
    /\ Apres("preparer_colis")
    /\ pc = "returned"
    /\ Ligne # <<>>
    /\ Len(Colis) = 2
    /\ Colis[1].volume = Colis[2].volume
    /\ Colis[1].type_p = "B"
    /\ Colis[2].type_p = "A"
    /\ Recuperes(splitStrip(Ligne)) = Colis

(***************************************************************************)
(* C11. Every product held in the stock has a non-negative volume: a code  *)
(* whose remainder is a negative integer is rejected as a format error and *)
(* leaves the stock unchanged.                                             *)
(***************************************************************************)
C11_VolumesNonNegatifs ==
    /\ \A k \in DOMAIN stock : \A i \in 1..Len(stock[k]) : stock[k][i].volume >= 0
    /\ (/\ Apres("ajouter_unitaire")
        /\ call.arg[1] # <<>>
        /\ IntOk(Tail(call.arg[1]))
        /\ IntVal(Tail(call.arg[1])) < 0)
            => (stock = pre.stock /\ out[1][1] = "Erreur format :")

(***************************************************************************)
(* C12. Every product stored in the queue registered under type k has      *)
(* type_p = k, and a product ingested from a well-formed code stands in    *)
(* the queue of the uppercased first character of that code, so that codes *)
(* differing only by the case of that character share a queue.             *)
(***************************************************************************)
C12_TypeDeLaQueue ==
    /\ \A k \in DOMAIN stock : \A i \in 1..Len(stock[k]) : stock[k][i].type_p = k
    /\ (Apres("ajouter_unitaire") /\ ~MalForme(call.arg[1])) =>
          LET k == upper(call.arg[1][1])
          IN  /\ k \in DOMAIN stock
              /\ stock[k] # <<>>
              /\ stock[k][Len(stock[k])] = Produit(k, IntVal(Tail(call.arg[1])))

\* a code with a lower-case first character joins the queue a code with the
\* upper-case character filled
C12_Witness ==
    /\ Apres("ajouter_unitaire")
    /\ call.arg[1] = <<"a", "2">>
    /\ "A" \in DOMAIN pre.stock
    /\ pre.stock["A"] = <<Produit("A", 1)>>
    /\ stock["A"] = <<Produit("A", 1), Produit("A", 2)>>
    /\ DOMAIN stock = {"A"}

(***************************************************************************)
(* C13. Round trip: right after ajouter_masse of a line of well-formed     *)
(* codes, from any stock, withdrawing each (type, volume) of the line once *)
(* succeeds every time and returns a product of that type and volume.      *)
(***************************************************************************)
\* retirer_produit called for each product of ps in turn, from state s: every
\* call returns a product of the type and volume asked for
RECURSIVE RetraitsReussis(_, _)
RetraitsReussis(s, ps) ==
    \/ ps = <<>>
    \/ LET r == retirer_produit(s, Head(ps).type_p, Head(ps).volume)
       IN  /\ r.ret # None
           /\ r.ret[1].type_p = Head(ps).type_p
           /\ r.ret[1].volume = Head(ps).volume
           /\ RetraitsReussis(r.s, Tail(ps))

C13_AllerRetour ==
    (/\ Apres("ajouter_masse")
     /\ Ligne # <<>>
     /\ \A i \in 1..Len(splitStrip(Ligne)) : ~MalForme(splitStrip(Ligne)[i]))
        => LET cs == splitStrip(Ligne)
           IN  RetraitsReussis(Courant, [i \in 1..Len(cs) |-> ProduitDe(cs[i])])

\* a batch of two well-formed codes of two types, into a stock that already
\* held a product
C13_Witness ==
    /\ Apres("ajouter_masse")
    /\ Len(splitStrip(Ligne)) = 2
    /\ \A i \in 1..2 : ~MalForme(splitStrip(Ligne)[i])
    /\ upper(splitStrip(Ligne)[1][1]) # upper(splitStrip(Ligne)[2][1])
    /\ pre.stock # <<>>
    /\ \E k \in DOMAIN pre.stock : pre.stock[k] # <<>>
    /\ RetraitsReussis(Courant, <<ProduitDe(splitStrip(Ligne)[1]),
                                  ProduitDe(splitStrip(Ligne)[2])>>)

(***************************************************************************)
(* C14. The threshold check follows withdrawals only: ajouter_unitaire and *)
(* ajouter_masse record no alert and leave the alert log as it was, also   *)
(* when the queue they fill is shorter than SEUIL_MIN afterwards.          *)
(***************************************************************************)
C14_AjoutSansAlerte ==
    (Apres("ajouter_unitaire") \/ Apres("ajouter_masse")) =>
        /\ log = pre.log
        /\ AlertesDe(out) = <<>>

\* a product is added to an empty stock: its queue holds one product, below 2
C14_Witness ==
    /\ Apres("ajouter_unitaire")
    /\ ~MalForme(call.arg[1])
    /\ Len(Queue(upper(call.arg[1][1]))) = 1
    /\ log = pre.log
    /\ out[1][1] = "Stock + :"

(***************************************************************************)
(* C15. For a non-empty order whose codes all parse, the lines printed by  *)
(* preparer_colis are: first, once, the header carrying the line as typed; *)
(* last, once, the assembled package; between them nothing but alert       *)
(* lines, the shortage alerts being those of the lines that find nothing,  *)
(* in line order.                                                          *)
(***************************************************************************)
\* the number of lines of o that start with tag
NbLignes(o, tag) == Cardinality({i \in 1..Len(o) : o[i][1] = tag})

C15_OrdreDesSorties ==
    (/\ Apres("preparer_colis")
     /\ Ligne # <<>>
     /\ \A i \in 1..Len(splitStrip(Ligne)) : ~MalForme(splitStrip(Ligne)[i]))
        => /\ Len(out) >= 2
           /\ out[1][1] = "--- COMMANDE :"
           /\ out[1][2] = Ligne
           /\ NbLignes(out, "--- COMMANDE :") = 1
           /\ out[Len(out)][1] = "-> Colis assemble :"
           /\ NbLignes(out, "-> Colis assemble :") = 1
           /\ \A i \in 2..(Len(out) - 1) : out[i][1] = "[ALERTE]"
           /\ Len(RupturesDe(out)) = Len(CodesManquants(splitStrip(Ligne)))
           /\ \A i \in 1..Len(RupturesDe(out)) :
                 RupturesDe(out)[i] = CodesManquants(splitStrip(Ligne))[i]

\* an order of two lines prints its header, a low-stock alert for the line it
\* serves, a shortage alert for the line it cannot serve, then the package
C15_Witness ==
    /\ Apres("preparer_colis")
    /\ pc = "returned"
    /\ Len(out) = 4
    /\ out[1][1] = "--- COMMANDE :"
    /\ out[2][1] = "[ALERTE]"
    /\ out[2][2][1] = "Rupture imminente"
    /\ out[3][1] = "[ALERTE]"
    /\ out[3][2][1] = "Rupture stock"
    /\ out[4][1] = "-> Colis assemble :"
    /\ Len(out[4][2]) = 1

(***************************************************************************)
(* C17. Conservation: when preparer_colis returns, the products in the     *)
(* stock before the call are, as a multiset, those in the stock after it   *)
(* plus those of the printed package; no product is delivered twice, so an *)
(* order that repeats a code the stock holds once delivers it once and     *)
(* records one shortage alert for the second line.                         *)
(***************************************************************************)
\* the number of products equal to p held in the queues of st
NbEnStock(st, p) ==
    LET places == UNION { {<<k, i>> : i \in 1..Len(st[k])} : k \in DOMAIN st }
    IN  Cardinality({x \in places : st[x[1]][x[2]] = p})

\* every product held in the queues of st
ProduitsEnStock(st) ==
    UNION { {st[k][i] : i \in 1..Len(st[k])} : k \in DOMAIN st }

C17_Conservation ==
    (Apres("preparer_colis") /\ pc = "returned" /\ Ligne # <<>>) =>
        \A p \in ProduitsEnStock(pre.stock) \cup ProduitsEnStock(stock)
                   \cup {Colis[i] : i \in 1..Len(Colis)} :
            NbEnStock(pre.stock, p) = NbEnStock(stock, p) + Compte(Colis, p)

\* the order repeats a code the stock holds once: one product, one shortage alert
C17_Witness ==
    /\ Apres("preparer_colis")
    /\ pc = "returned"
    /\ Len(splitStrip(Ligne)) = 2
    /\ splitStrip(Ligne)[1] = splitStrip(Ligne)[2]
    /\ ~MalForme(splitStrip(Ligne)[1])
    /\ NbEnStock(pre.stock, ProduitDe(splitStrip(Ligne)[1])) = 1
    /\ Colis = <<ProduitDe(splitStrip(Ligne)[1])>>
    /\ RupturesDe(out) = <<splitStrip(Ligne)[2]>>
    /\ NbEnStock(stock, ProduitDe(splitStrip(Ligne)[1])) = 0

(***************************************************************************)
(* C18. A retirer_produit that returns None changes nothing: every queue   *)
(* and the alert log are as before the call and no alert is recorded, also *)
(* when the queue of the requested type holds fewer than SEUIL_MIN         *)
(* products.                                                               *)
(***************************************************************************)
C18_RetraitNulSansEffet ==
    (Apres("retirer_produit") /\ ret = None) =>
        /\ stock = pre.stock
        /\ log = pre.log
        /\ out = <<>>

\* the queue holds one product, of another volume than the one asked for
C18_Witness ==
    /\ Apres("retirer_produit")
    /\ ret = None
    /\ Len(AvantQueue(call.arg[1])) = 1
    /\ AvantQueue(call.arg[1])[1].volume # call.arg[2]
    /\ stock = pre.stock

(***************************************************************************)
(* C19. Each well-formed line preparer_colis processes records at most one *)
(* alert: a line that is served records the low-stock alert of its type    *)
(* iff fewer than SEUIL_MIN products of that type remain, and no shortage  *)
(* alert; a line that is not served records one shortage alert and no      *)
(* low-stock alert. The alerts of an order thus enter the log in line      *)
(* order and are no more than its lines.                                   *)
(***************************************************************************)
\* the products of type k left once line i is served: those before the call
\* less the lines up to i that were served from that queue
Reste(cs, i, k) ==
    Len(AvantQueue(k))
        - Cardinality({j \in 1..i : upper(cs[j][1]) = k /\ ~Manque(cs, j)})

\* the alerts line i must record: none or one
AlertesDeLigne(cs, i) ==
    LET k == upper(cs[i][1])
    IN  IF Manque(cs, i) THEN <<MsgRupture(cs[i])>>
        ELSE IF Reste(cs, i, k) < SEUIL_MIN THEN <<MsgSeuil(k, Reste(cs, i, k))>>
        ELSE <<>>

\* the alerts of the lines idx, one line after the other
RECURSIVE AlertesDesLignes(_, _)
AlertesDesLignes(cs, idx) ==
    IF idx = <<>> THEN <<>>
    ELSE AlertesDeLigne(cs, Head(idx)) \o AlertesDesLignes(cs, Tail(idx))

C19_UneAlerteParLigne ==
    (Apres("preparer_colis") /\ Ligne # <<>>) =>
        LET cs == splitStrip(Ligne)
            att == AlertesDesLignes(cs, EnOrdre(Traitees(cs)))
        IN  /\ AlertesDe(out) = att
            /\ emises = SubSeq(emises, 1, Len(emises) - Len(att)) \o att
            /\ log = Derniers(pre.log \o att, LogMaxLen)
            /\ Len(AlertesDe(out)) <= Len(cs)

\* the first line is served and leaves one product of its type, the second
\* line is not served: a low-stock alert, then a shortage alert
C19_Witness ==
    /\ Apres("preparer_colis")
    /\ pc = "returned"
    /\ Len(splitStrip(Ligne)) = 2
    /\ Len(Colis) = 1
    /\ Len(AvantQueue(Colis[1].type_p)) = 2
    /\ AlertesDe(out) = <<MsgSeuil(Colis[1].type_p, 1),
                          MsgRupture(splitStrip(Ligne)[2])>>
    /\ log = Derniers(pre.log \o AlertesDe(out), LogMaxLen)

(***************************************************************************)
(* C20. A call about type k touches the queue of k alone: a successful     *)
(* ajouter_unitaire of (k, v) leaves k's queue as it was with Produit(k,   *)
(* v) appended at its tail, creating it when absent; a successful          *)
(* retirer_produit(k, v) leaves it one product shorter; either leaves the  *)
(* queue of every other type as it was.                                    *)
(***************************************************************************)
\* the queues of the types other than k are the same, present or absent alike
AutresInchanges(k) ==
    /\ DOMAIN stock \ {k} = DOMAIN pre.stock \ {k}
    /\ \A x \in DOMAIN stock \ {k} : stock[x] = pre.stock[x]

C20_SeuleLaQueueDuType ==
    /\ (Apres("ajouter_unitaire") /\ ~MalForme(call.arg[1])) =>
          LET k == upper(call.arg[1][1])
          IN  /\ k \in DOMAIN stock
              /\ stock[k] = AvantQueue(k) \o <<ProduitDe(call.arg[1])>>
              /\ AutresInchanges(k)
    /\ (Apres("retirer_produit") /\ ret # None) =>
          LET k == call.arg[1]
          IN  /\ k \in DOMAIN stock
              /\ Len(stock[k]) = Len(AvantQueue(k)) - 1
              /\ AutresInchanges(k)

\* a product opens the queue of its type beside the queue of another type
C20_Witness ==
    /\ Apres("ajouter_unitaire")
    /\ ~MalForme(call.arg[1])
    /\ upper(call.arg[1][1]) \notin DOMAIN pre.stock
    /\ \E x \in DOMAIN pre.stock : pre.stock[x] # <<>>
    /\ stock[upper(call.arg[1][1])] = <<ProduitDe(call.arg[1])>>
    /\ AutresInchanges(upper(call.arg[1][1]))

(***************************************************************************)
(* C16. A type absent from the stock and a type present with an empty      *)
(* queue cannot be told apart: from two stocks that differ only in that,   *)
(* every call gives the same result, the same printed lines, the same      *)
(* package and the same alert log, and leaves two stocks that again differ *)
(* only in that; so does, step after step, every sequence of calls.        *)
(***************************************************************************)
\* the queue of type k in st, empty when st has no such key
QueueDans(st, k) == IF k \in DOMAIN st THEN st[k] ELSE <<>>

\* st1 and st2 hold the same queues, an empty queue counting as an absent one
MemeStock(st1, st2) ==
    \A k \in DOMAIN st1 \cup DOMAIN st2 : QueueDans(st1, k) = QueueDans(st2, k)

\* the stocks got from st by dropping some of the keys whose queue is empty
SansClesVides(st) ==
    LET vides == {k \in DOMAIN st : st[k] = <<>>}
    IN  {[k \in DOMAIN st \ d |-> st[k]] : d \in (SUBSET vides) \ {{}}}

\* two states of the services agree on what a caller can observe
MemeVue(s1, s2) ==
    /\ s1.out = s2.out
    /\ s1.log = s2.log
    /\ MemeStock(s1.stock, s2.stock)

\* every call has the same effects from st1 and from st2
MemesEffets(st1, st2) ==
    LET e1 == Etat(st1, log, <<>>)
        e2 == Etat(st2, log, <<>>)
    IN  /\ \A t \in Texts : MemeVue(ajouter_masse(e1, t), ajouter_masse(e2, t))
        /\ \A c \in Codes : MemeVue(ajouter_unitaire(e1, c), ajouter_unitaire(e2, c))
        /\ \A k \in Types, v \in Volumes :
              /\ retirer_produit(e1, k, v).ret = retirer_produit(e2, k, v).ret
              /\ MemeVue(retirer_produit(e1, k, v).s, retirer_produit(e2, k, v).s)
        /\ \A t \in Texts :
              /\ preparer_colis(e1, t).exc = preparer_colis(e2, t).exc
              /\ MemeVue(preparer_colis(e1, t).s, preparer_colis(e2, t).s)

C16_AbsentCommeVide ==
    pc = "idle" => \A st2 \in SansClesVides(stock) : MemesEffets(stock, st2)

\* a caller about to call, with a type left present and empty by a withdrawal
\* beside a type that holds a product
C16_Witness ==
    /\ pc = "idle"
    /\ pieces < MaxPieces
    /\ \E k \in DOMAIN stock : stock[k] = <<>>
    /\ \E k \in DOMAIN stock : stock[k] # <<>>
    /\ SansClesVides(stock) # {}

====
